---------------------------- MODULE Spec2Model ----------------------------
(***************************************************************************)
(* State-machine model of src/app.py, the Flask backend of the wedding     *)
(* site: the four PostgreSQL tables, the in-process ADMIN_SESSIONS map and *)
(* one action per route handler.                                           *)
(*                                                                         *)
(* Conventions                                                             *)
(*   - SQL NULL, Python None and an absent JSON key are NULL (the empty    *)
(*     tuple); any other value v is Val(v), the one-element tuple.         *)
(*   - Python strings that the code takes apart (the Authorization header, *)
(*     uuid strings, invite codes) are sequences of one-character strings. *)
(*   - a JSON request body is a record that holds only the keys the        *)
(*     client sent; Get models dict.get.                                   *)
(*   - a table is the set of its rows; ids come from the table's SERIAL    *)
(*     sequence, which is not rolled back when an INSERT fails.            *)
(*   - every handler runs against a reachable database whose tables exist  *)
(*     (all statements of a handler need them); setup_database alone is    *)
(*     modelled with a failing statement, because it has a rollback path.  *)
(***************************************************************************)
EXTENDS Integers, Sequences, FiniteSets, Bags, TLC

VARIABLES
    schema,                 \* the tables that exist (committed CREATE TABLE statements)
    laisvitor_admin,        \* rows of table laisvitor_admin
    laisvitor_convidados,   \* rows of table laisvitor_convidados
    laisvitor_presentes,    \* rows of table laisvitor_presentes
    laisvitor_depoimentos,  \* rows of table laisvitor_depoimentos
    serial,                 \* last value of each table's id sequence
    ADMIN_SESSIONS,         \* token -> admin id
    inflight,               \* guest creations between code generation and INSERT
    connections,            \* number of database connections that are open
    resp                    \* the response of the last request

db == <<schema, laisvitor_admin, laisvitor_convidados, laisvitor_presentes,
        laisvitor_depoimentos, serial>>
vars == <<schema, laisvitor_admin, laisvitor_convidados, laisvitor_presentes,
          laisvitor_depoimentos, serial, ADMIN_SESSIONS, inflight,
          connections, resp>>

---------------------------------------------------------------------------
(* Bounds of the model. *)

MaxSessions == 2
MaxConvidados == 2
MaxPresentes == 3
MaxDepoimentos == 2
MaxInflight == 2
MaxTime == 2

---------------------------------------------------------------------------
(* Values. *)

NULL == <<>>
Val(v) == <<v>>
Unwrap(x) == x[1]

\* dict.get(key, default)
Get(data, key, default) == IF key \in DOMAIN data THEN data[key] ELSE default

\* `not x` for a str-or-None and for a number-or-None
NotStr(x) == x = NULL \/ x = Val("")
NotNum(x) == x = NULL \/ x = Val(0)

\* str.upper() on one character (hexadecimal digits of a uuid)
UpperChar(c) ==
    CASE c = "a" -> "A" [] c = "b" -> "B" [] c = "c" -> "C"
      [] c = "d" -> "D" [] c = "e" -> "E" [] c = "f" -> "F"
      [] OTHER -> c

upper(s) == [i \in 1..Len(s) |-> UpperChar(s[i])]

\* s[:n]
Prefix(s, n) == SubSeq(s, 1, IF Len(s) < n THEN Len(s) ELSE n)

\* s.replace(old, '') : every non-overlapping occurrence, left to right
RECURSIVE replace(_, _)
replace(s, old) ==
    IF Len(s) < Len(old) THEN s
    ELSE IF SubSeq(s, 1, Len(old)) = old
         THEN replace(SubSeq(s, Len(old) + 1, Len(s)), old)
         ELSE <<Head(s)>> \o replace(Tail(s), old)

Bearer == <<"B", "e", "a", "r", "e", "r", " ">>

\* hashlib.sha256(password.encode()).hexdigest(), tabulated on the model's passwords
Sha256Hex(password) ==
    CASE password = "123" ->
           "a665a45920422f9d417e4867efdc4fb8a04a1f3fff1fa07e998e86f7f7a27ae3"
      [] password = "noivos" ->
           "603bb3b46aee0260b42ab8492b9e60be4292013a1e447aba3f6c5ac8b5a3f861"
      [] password = "" ->
           "e3b0c44298fc1c149afbf4c8996fb92427ae41e4649b934ca495991b7852b855"
      [] password = "a665a45920422f9d417e4867efdc4fb8a04a1f3fff1fa07e998e86f7f7a27ae3" ->
           "173af653133d964edfc16cafe0aba33c8f500a07f3ba3f81943916910c257705"

hash_password(password) == Sha256Hex(password)

\* str(uuid.uuid4()): a uuid string is modelled by its first seven
\* characters, the six the invite code keeps and one of those it drops.
CodeLen == 6
UUID4 ==
    { <<"a", "0", "0", "0", "0", "0", "0">>, <<"a", "0", "0", "0", "0", "0", "1">>,
      <<"7", "0", "0", "0", "0", "0", "0">> }

Times == 1..MaxTime
DayTicks == 2

\* TO_CHAR(ts, 'DD/MM/YYYY'): the date of a timestamp
TO_CHAR(ts) == ts \div DayTicks

\* DECIMAL(10, 2) column from an integral JSON number, and float() of it
ToDecimal(n) == [cents |-> n * 100]
float(d) == d.cents \div 100

---------------------------------------------------------------------------
(* The database. *)

Tables == {"laisvitor_admin", "laisvitor_convidados", "laisvitor_presentes",
           "laisvitor_depoimentos"}

\* the next value of a table's SERIAL sequence
nextval(seq, table) == seq[table] + 1

\* rows an operator has put in laisvitor_admin by hand before the program
\* starts (the program itself only ever inserts the default admin)
ProvisionedAdmins ==
    { [id |-> 1, username |-> "lais", chave_admin |-> "noivos"],
      [id |-> 2, username |-> "vitor", chave_admin |-> "noivos"] }

Init ==
    /\ \/ /\ schema = {}
          /\ laisvitor_admin = {}
          /\ serial = [t \in Tables |-> 0]
       \/ /\ schema = Tables
          /\ laisvitor_admin = ProvisionedAdmins
          /\ serial = [t \in Tables |->
                         IF t = "laisvitor_admin" THEN 2 ELSE 0]
    /\ laisvitor_convidados = {}
    /\ laisvitor_presentes = {}
    /\ laisvitor_depoimentos = {}
    /\ ADMIN_SESSIONS = <<>>
    /\ inflight = EmptyBag
    /\ connections = 0
    /\ resp = [op |-> "start", status |-> 0, body |-> NULL]

\* a response: jsonify(body), status
Reply(op, status, body) == resp' = [op |-> op, status |-> status, body |-> body]

\* an exception escapes the handler: the connection is closed without a
\* commit, and Flask answers 500
Raise(op, exception) == Reply(op, 500, [exception |-> exception])

\* psycopg2.connect(DATABASE_URL) returned a connection: with `open`
\* connections open before, one more is open
get_db_connection(open) == open + 1

\* conn.close()
close(open) == open - 1

\* a handler that closes its connection as the last statement of the try
\* block instead of in a finally block
Finally_ReturnOnly(open, raised) == IF raised THEN open ELSE close(open)

\* finally: if conn: conn.close() -- the connections open after the block,
\* with `open` of them open inside the try block; raised: an exception left
\* the try block
Finally(open, raised) == close(open)

\* conn = get_db_connection(); try: ... finally: ... in one step. connected:
\* the request got as far as get_db_connection and it returned a connection
Request(connected, raised) ==
    connections' = IF connected
                   THEN Finally(get_db_connection(connections), raised)
                   ELSE connections

---------------------------------------------------------------------------
(* 1. setup_database *)

SeedPresentes ==
    << [nome_presente |-> "Cota Lua de Mel - Noite Extra",
        descricao |-> Val("Ajude-nos a esticar a viagem dos sonhos! Todo valor e bem-vindo."),
        imagem_url |-> Val("plane.png"), valor_cota |-> ToDecimal(500)],
       [nome_presente |-> "Jantar Romantico em Veneza",
        descricao |-> Val("Uma experiencia gastronomica inesquecivel para os recem-casados."),
        imagem_url |-> Val("utensils.png"), valor_cota |-> ToDecimal(350)] >>

\* INSERT INTO laisvitor_presentes (admin_id, nome_presente, descricao,
\* imagem_url, valor_cota): esta_ativo takes its DEFAULT TRUE
InsertPresente(rows, id, admin_id, p) ==
    rows \cup { [id |-> id, admin_id |-> admin_id,
                 nome_presente |-> p.nome_presente, descricao |-> p.descricao,
                 imagem_url |-> p.imagem_url, valor_cota |-> p.valor_cota,
                 esta_ativo |-> Val(TRUE)] }

SetupStatements == 9

\* the k-th statement of setup_database, run on the transaction's view tx
SetupStatement(tx, k) ==
    CASE k = 1 -> [tx EXCEPT !.schema = @ \cup {"laisvitor_admin"}]
      [] k = 2 -> [tx EXCEPT !.schema = @ \cup {"laisvitor_convidados"}]
      [] k = 3 -> [tx EXCEPT !.schema = @ \cup {"laisvitor_presentes"}]
      [] k = 4 -> [tx EXCEPT !.schema = @ \cup {"laisvitor_depoimentos"}]
      [] k = 5 -> [tx EXCEPT !.seed = (Cardinality(tx.admin) = 0)]
      [] k = 6 ->
           IF ~tx.seed THEN tx
           ELSE [tx EXCEPT
                   !.admin = @ \cup
                       { [id |-> nextval(tx.serial, "laisvitor_admin"),
                          username |-> "admin",
                          chave_admin |-> Sha256Hex("123")] },
                   !.serial["laisvitor_admin"] = @ + 1]
      [] k = 7 ->
           IF ~tx.seed THEN tx
           ELSE [tx EXCEPT !.admin_id = (CHOOSE a \in tx.admin : TRUE).id]
      [] OTHER ->
           IF ~tx.seed THEN tx
           ELSE [tx EXCEPT
                   !.presentes =
                       InsertPresente(@, nextval(tx.serial, "laisvitor_presentes"),
                                      tx.admin_id, SeedPresentes[k - 7]),
                   !.serial["laisvitor_presentes"] = @ + 1]

RECURSIVE SetupRun(_, _)
SetupRun(tx, k) == IF k = 0 THEN tx ELSE SetupStatement(SetupRun(tx, k - 1), k)

\* whether statement k is reached at all (the seed is behind the COUNT test)
SetupReaches(tx, k) == k <= 5 \/ SetupRun(tx, 5).seed

\* an except branch without conn.rollback(), on a connection that commits
\* what it has run
SetupRollback_Partial(tx0, tx) == tx

\* What the database holds after the except branch: conn.rollback() undoes
\* the tables, rows and (with their tables) the sequences of this run; a
\* sequence that existed before keeps the values it handed out.
SetupRollback(tx0, tx) ==
    [tx0 EXCEPT !.serial = IF tx0.schema = Tables THEN tx.serial ELSE tx0.serial]

\* connected: psycopg2.connect succeeded; failAt: the statement that raises
\* (0: none does)
setup_database(connected, failAt) ==
    LET tx0 == [schema |-> schema, admin |-> laisvitor_admin,
                presentes |-> laisvitor_presentes, serial |-> serial,
                seed |-> FALSE, admin_id |-> 0]
        fails == failAt # 0 /\ SetupReaches(tx0, failAt)
        tx == IF fails THEN SetupRollback(tx0, SetupRun(tx0, failAt - 1))
              ELSE SetupRun(tx0, SetupStatements)
    IN  /\ IF ~connected
           THEN /\ UNCHANGED db
                /\ Reply("setup_database", 0, [log |-> "ERRO AO CONECTAR NO DB"])
           ELSE /\ schema' = tx.schema
                /\ laisvitor_admin' = tx.admin
                /\ laisvitor_presentes' = tx.presentes
                /\ serial' = tx.serial
                /\ UNCHANGED <<laisvitor_convidados, laisvitor_depoimentos>>
                /\ Reply("setup_database", 0,
                         [log |-> IF fails THEN "ERRO NO SETUP DO DB"
                                  ELSE "Tabelas verificadas/criadas com sucesso."])
        /\ UNCHANGED <<ADMIN_SESSIONS, inflight>>
        /\ Request(connected, fails)

---------------------------------------------------------------------------
(* 2. check_auth *)

\* check_auth without line 132: the header is looked up with its scheme
check_auth_KeepsScheme(header) ==
    IF header = NULL \/ Unwrap(header) = <<>> THEN NULL
    ELSE IF Unwrap(header) \in DOMAIN ADMIN_SESSIONS
         THEN Val(ADMIN_SESSIONS[Unwrap(header)]) ELSE NULL

\* header: the Authorization header, NULL when the request has none
check_auth(header) ==
    IF header = NULL \/ Unwrap(header) = <<>> THEN NULL
    ELSE LET token == replace(Unwrap(header), Bearer)
         IN  IF token \in DOMAIN ADMIN_SESSIONS
             THEN Val(ADMIN_SESSIONS[token]) ELSE NULL

\* request.headers.get('Authorization', '').replace('Bearer ', '') looked up
\* in ADMIN_SESSIONS, as the two list/create handlers do after check_auth
SessionAdmin(header) ==
    LET token == replace(IF header = NULL THEN <<>> ELSE Unwrap(header), Bearer)
    IN  IF token \in DOMAIN ADMIN_SESSIONS THEN Val(ADMIN_SESSIONS[token]) ELSE NULL

\* `if not check_auth(request)`: None and the id 0 are both falsy
Forbidden(header) == NotNum(check_auth(header))

---------------------------------------------------------------------------
(* 3. login_admin *)

\* a login that compares hash_password of the submitted key with the stored one
login_admin_Hashed(data, token, maxSessions) ==
    LET username == Get(data, "username", NULL)
        chave_admin == Get(data, "chave_admin", NULL)
        found == { a \in laisvitor_admin :
                     /\ Val(a.username) = username
                     /\ a.chave_admin = hash_password(Unwrap(chave_admin)) }
    IN  /\ schema = Tables
        /\ IF NotStr(username) \/ NotStr(chave_admin)
           THEN /\ Reply("login_admin", 400, [erro |-> "Credenciais incompletas"])
                /\ UNCHANGED ADMIN_SESSIONS
           ELSE IF found # {}
           THEN LET admin == CHOOSE a \in found : TRUE
                IN  /\ Cardinality(DOMAIN ADMIN_SESSIONS) < maxSessions
                    /\ ADMIN_SESSIONS' =
                         [t \in DOMAIN ADMIN_SESSIONS \cup {token} |->
                            IF t = token THEN admin.id ELSE ADMIN_SESSIONS[t]]
                    /\ Reply("login_admin", 200,
                             [mensagem |-> "Login realizado", token |-> token,
                              admin_id |-> admin.id])
           ELSE /\ Reply("login_admin", 401, [erro |-> "Usuario ou chave invalidos"])
                /\ UNCHANGED ADMIN_SESSIONS
        /\ UNCHANGED <<db, inflight>>
        /\ Request(~(NotStr(username) \/ NotStr(chave_admin)), resp'.status = 500)

login_admin(data, token, maxSessions) ==
    LET username == Get(data, "username", NULL)
        chave_admin == Get(data, "chave_admin", NULL)
        found == { a \in laisvitor_admin :
                     /\ Val(a.username) = username
                     /\ Val(a.chave_admin) = chave_admin }
    IN  /\ schema = Tables
        /\ IF NotStr(username) \/ NotStr(chave_admin)
           THEN /\ Reply("login_admin", 400, [erro |-> "Credenciais incompletas"])
                /\ UNCHANGED ADMIN_SESSIONS
           ELSE IF found # {}
           THEN LET admin == CHOOSE a \in found : TRUE
                IN  /\ Cardinality(DOMAIN ADMIN_SESSIONS) < maxSessions
                    /\ ADMIN_SESSIONS' =
                         [t \in DOMAIN ADMIN_SESSIONS \cup {token} |->
                            IF t = token THEN admin.id ELSE ADMIN_SESSIONS[t]]
                    /\ Reply("login_admin", 200,
                             [mensagem |-> "Login realizado", token |-> token,
                              admin_id |-> admin.id])
           ELSE /\ Reply("login_admin", 401, [erro |-> "Usuario ou chave invalidos"])
                /\ UNCHANGED ADMIN_SESSIONS
        /\ UNCHANGED <<db, inflight>>
        /\ Request(~(NotStr(username) \/ NotStr(chave_admin)), resp'.status = 500)



---------------------------------------------------------------------------
(* 4. RSVP (public) *)

\* a lookup that upper-cases what the guest typed
ConvidadosByCodigo_Upper(codigo) ==
    { c \in laisvitor_convidados :
        codigo # NULL /\ c.codigo_convite = upper(Unwrap(codigo)) }

\* SELECT ... FROM laisvitor_convidados WHERE codigo_convite = %s
ConvidadosByCodigo(codigo) ==
    { c \in laisvitor_convidados : Val(c.codigo_convite) = codigo }

rsvp_verificar(data) ==
    LET codigo == Get(data, "codigo_convite", NULL)
        found == ConvidadosByCodigo(codigo)
    IN  /\ schema = Tables
        /\ IF found # {}
           THEN LET convidado == CHOOSE c \in found : TRUE
                IN  Reply("rsvp_verificar", 200,
                          [id |-> convidado.id,
                           nome_convidado |-> convidado.nome_convidado,
                           status_rsvp |-> convidado.status_rsvp])
           ELSE Reply("rsvp_verificar", 404,
                      [erro |-> "Codigo de convite nao encontrado"])
        /\ UNCHANGED <<db, ADMIN_SESSIONS, inflight>>
        /\ Request(TRUE, resp'.status = 500)

\* the UPDATE of rsvp_confirmar without its WHERE clause
UpdateRsvp_AllRows(rows, codigo, status, qtd_adultos, restricoes, now) ==
    { [c EXCEPT !.status_rsvp = status, !.qtd_adultos = qtd_adultos,
                !.restricoes_alimentares = restricoes,
                !.data_confirmacao = Val(now)] : c \in rows }

\* UPDATE laisvitor_convidados SET status_rsvp, qtd_adultos,
\* restricoes_alimentares, data_confirmacao = NOW() WHERE codigo_convite = %s
UpdateRsvp(rows, codigo, status, qtd_adultos, restricoes, now) ==
    { IF Val(c.codigo_convite) = codigo
      THEN [c EXCEPT !.status_rsvp = status, !.qtd_adultos = qtd_adultos,
                     !.restricoes_alimentares = restricoes,
                     !.data_confirmacao = Val(now)]
      ELSE c : c \in rows }

rsvp_confirmar(data, now) ==
    LET codigo == Get(data, "codigo_convite", NULL)
        status == Get(data, "status_rsvp", NULL)
        qtd_adultos == Get(data, "qtd_adultos", Val(0))
        restricoes == Get(data, "restricoes_alimentares", Val(""))
        returning == ConvidadosByCodigo(codigo)
    IN  /\ schema = Tables
        /\ IF returning # {}
           THEN /\ laisvitor_convidados' =
                     UpdateRsvp(laisvitor_convidados, codigo, status,
                                qtd_adultos, restricoes, now)
                /\ Reply("rsvp_confirmar", 200,
                         [mensagem |-> "RSVP atualizado com sucesso!"])
           ELSE /\ UNCHANGED laisvitor_convidados
                /\ Reply("rsvp_confirmar", 404,
                         [erro |-> "Codigo invalido para atualizacao"])
        /\ UNCHANGED <<schema, laisvitor_admin, laisvitor_presentes,
                       laisvitor_depoimentos, serial, ADMIN_SESSIONS, inflight>>
        /\ Request(TRUE, resp'.status = 500)

---------------------------------------------------------------------------
(* 5. Testimonials (public) *)

\* the sequences that list every element of S once, in an order `before` allows
Orderings(S, before(_, _)) ==
    { s \in [1..Cardinality(S) -> S] :
        /\ \A i, j \in 1..Cardinality(S) : i < j => s[i] # s[j] /\ before(s[i], s[j]) }

\* the join without its WHERE clause
DepoimentosJoin_NoStatus(status) ==
    { j \in [d : laisvitor_depoimentos, c : laisvitor_convidados] :
        j.d.convidado_id = j.c.id }

\* FROM laisvitor_depoimentos d JOIN laisvitor_convidados c
\*   ON d.convidado_id = c.id WHERE d.status_aprovacao = <status>
DepoimentosJoin(status) ==
    { j \in [d : laisvitor_depoimentos, c : laisvitor_convidados] :
        /\ j.d.convidado_id = j.c.id
        /\ j.d.status_aprovacao = Val(status) }

NewestFirst(j1, j2) == j1.d.data_criacao >= j2.d.data_criacao

\* the rows of get_depoimentos_publico in one of the orders the ORDER BY allows
DepoimentosPublicos(order) ==
    [i \in DOMAIN order |->
       [texto |-> order[i].d.mensagem, nome |-> order[i].c.nome_convidado,
        data |-> TO_CHAR(order[i].d.data_criacao)]]

get_depoimentos_publico ==
    /\ schema = Tables
    /\ \E order \in Orderings(DepoimentosJoin("Aprovado"), NewestFirst) :
         Reply("get_depoimentos_publico", 200, DepoimentosPublicos(order))
    /\ UNCHANGED <<db, ADMIN_SESSIONS, inflight>>
    /\ Request(TRUE, resp'.status = 500)

post_depoimento_publico(data, now, maxDepoimentos) ==
    LET codigo == Get(data, "codigo_convite", NULL)
        mensagem == Get(data, "mensagem", NULL)
        res == ConvidadosByCodigo(codigo)
    IN  /\ schema = Tables
        /\ IF res = {}
           THEN /\ Reply("post_depoimento_publico", 404, [erro |-> "Codigo invalido"])
                /\ UNCHANGED <<laisvitor_depoimentos, serial>>
           ELSE LET convidado_id == (CHOOSE c \in res : TRUE).id
                    id == nextval(serial, "laisvitor_depoimentos")
                IN  /\ serial["laisvitor_depoimentos"] < maxDepoimentos
                    /\ serial' = [serial EXCEPT !["laisvitor_depoimentos"] = id]
                    /\ IF mensagem = NULL
                       THEN \* mensagem TEXT NOT NULL
                            /\ Raise("post_depoimento_publico", "NotNullViolation")
                            /\ UNCHANGED laisvitor_depoimentos
                       ELSE /\ laisvitor_depoimentos' = laisvitor_depoimentos \cup
                                 { [id |-> id, convidado_id |-> convidado_id,
                                    mensagem |-> Unwrap(mensagem),
                                    status_aprovacao |-> Val("Pendente"),
                                    data_criacao |-> now] }
                            /\ Reply("post_depoimento_publico", 200,
                                     [mensagem |-> "Depoimento enviado para aprovacao!"])
        /\ UNCHANGED <<schema, laisvitor_admin, laisvitor_convidados,
                       laisvitor_presentes, ADMIN_SESSIONS, inflight>>
        /\ Request(TRUE, resp'.status = 500)

---------------------------------------------------------------------------
(* 6. Gifts (public) *)

ById(r1, r2) == r1.id <= r2.id

\* the one ordering of a set of rows by id
OrderById(rows) == CHOOSE s \in Orderings(rows, ById) : TRUE

\* p['valor_cota'] = float(p['valor_cota'])
PresenteJson(p) == [p EXCEPT !.valor_cota = float(@)]

\* the public query without its WHERE clause
PresentesAtivos_All == laisvitor_presentes

\* SELECT * FROM laisvitor_presentes WHERE esta_ativo = TRUE
PresentesAtivos == { p \in laisvitor_presentes : p.esta_ativo = Val(TRUE) }

get_presentes_publico ==
    /\ schema = Tables
    /\ LET presentes == OrderById(PresentesAtivos)
       IN  Reply("get_presentes_publico", 200,
                 [i \in DOMAIN presentes |-> PresenteJson(presentes[i])])
    /\ UNCHANGED <<db, ADMIN_SESSIONS, inflight>>
    /\ Request(TRUE, resp'.status = 500)


---------------------------------------------------------------------------
(* 7. Admin (protected) *)

Unauthorized(op) == Reply(op, 403, [erro |-> "Nao autorizado"])

\* 7.1
admin_stats(header) ==
    /\ schema = Tables
    /\ IF Forbidden(header) THEN Unauthorized("admin_stats")
       ELSE Reply("admin_stats", 200,
              [confirmados |->
                 Cardinality({ c \in laisvitor_convidados :
                                 c.status_rsvp = Val("Confirmado") }),
               pendentes_rsvp |->
                 Cardinality({ c \in laisvitor_convidados :
                                 c.status_rsvp = Val("Pendente") }),
               recados_moderacao |->
                 Cardinality({ d \in laisvitor_depoimentos :
                                 d.status_aprovacao = Val("Pendente") })])
    /\ UNCHANGED <<db, ADMIN_SESSIONS, inflight>>
    /\ Request(~Forbidden(header), resp'.status = 500)

AnyOrder(r1, r2) == TRUE

\* 7.2
admin_get_depoimentos_pendentes(header) ==
    /\ schema = Tables
    /\ IF Forbidden(header) THEN Unauthorized("admin_get_depoimentos_pendentes")
       ELSE \E order \in Orderings(DepoimentosJoin("Pendente"), AnyOrder) :
              Reply("admin_get_depoimentos_pendentes", 200,
                    [i \in DOMAIN order |->
                       [id |-> order[i].d.id, mensagem |-> order[i].d.mensagem,
                        nome_convidado |-> order[i].c.nome_convidado]])
    /\ UNCHANGED <<db, ADMIN_SESSIONS, inflight>>
    /\ Request(~Forbidden(header), resp'.status = 500)

\* UPDATE laisvitor_depoimentos SET status_aprovacao = %s WHERE id = %s
UpdateDepoimentoStatus(rows, id, novo_status) ==
    { IF d.id = id THEN [d EXCEPT !.status_aprovacao = novo_status] ELSE d :
        d \in rows }

admin_update_depoimento_status(header, id, data) ==
    LET novo_status == Get(data, "status", NULL)
    IN  /\ schema = Tables
        /\ IF Forbidden(header)
           THEN /\ Unauthorized("admin_update_depoimento_status")
                /\ UNCHANGED laisvitor_depoimentos
           ELSE /\ laisvitor_depoimentos' =
                     UpdateDepoimentoStatus(laisvitor_depoimentos, id, novo_status)
                /\ Reply("admin_update_depoimento_status", 200,
                         [mensagem |-> <<"Depoimento", id, "atualizado para", novo_status>>])
        /\ UNCHANGED <<schema, laisvitor_admin, laisvitor_convidados,
                       laisvitor_presentes, serial, ADMIN_SESSIONS, inflight>>
        /\ Request(~Forbidden(header), resp'.status = 500)

\* 7.3
get_presente_by_id(header, id) ==
    LET found == { p \in laisvitor_presentes : p.id = id }
    IN  /\ schema = Tables
        /\ IF Forbidden(header) THEN Unauthorized("get_presente_by_id")
           ELSE IF found = {}
           THEN Reply("get_presente_by_id", 404, [erro |-> "Presente nao encontrado"])
           ELSE Reply("get_presente_by_id", 200, PresenteJson(CHOOSE p \in found : TRUE))
        /\ UNCHANGED <<db, ADMIN_SESSIONS, inflight>>
        /\ Request(~Forbidden(header), resp'.status = 500)

\* row[0] on a row of the given cursor: a tuple of the default cursor has a
\* column 0; a RealDictRow is a dict keyed by column name only, so the integer
\* subscript raises KeyError
IntegerSubscript(cursor_factory) == cursor_factory # "RealDictCursor"

\* SELECT * FROM laisvitor_presentes WHERE admin_id = %s
PresentesDoAdmin(admin_id) ==
    { p \in laisvitor_presentes : Val(p.admin_id) = admin_id }

admin_gerenciar_presentes(method, header, data, maxPresentes) ==
    LET admin_id == SessionAdmin(header)
        nome == Get(data, "nome_presente", NULL)
        valor == Get(data, "valor_cota", NULL)
        url == Get(data, "imagem_url", NULL)
        desc == Get(data, "descricao", NULL)
        id == nextval(serial, "laisvitor_presentes")
        op == "admin_gerenciar_presentes"
    IN  /\ schema = Tables
        /\ IF Forbidden(header)
           THEN /\ Unauthorized(op)
                /\ UNCHANGED <<laisvitor_presentes, serial>>
           ELSE IF method = "GET"
           THEN LET presentes == OrderById(PresentesDoAdmin(admin_id))
                IN  /\ Reply(op, 200,
                             [i \in DOMAIN presentes |-> PresenteJson(presentes[i])])
                    /\ UNCHANGED <<laisvitor_presentes, serial>>
           ELSE IF NotStr(nome) \/ NotNum(valor)
           THEN /\ Reply(op, 400, [mensagem |-> "Nome e valor sao obrigatorios."])
                /\ UNCHANGED <<laisvitor_presentes, serial>>
           ELSE /\ serial["laisvitor_presentes"] < maxPresentes
                /\ serial' = [serial EXCEPT !["laisvitor_presentes"] = id]
                /\ laisvitor_presentes' =
                     InsertPresente(laisvitor_presentes, id, Unwrap(admin_id),
                                    [nome_presente |-> Unwrap(nome), descricao |-> desc,
                                     imagem_url |-> url,
                                     valor_cota |-> ToDecimal(Unwrap(valor))])
                /\ IF IntegerSubscript("RealDictCursor")
                   THEN Reply(op, 200,
                              [mensagem |-> "Presente adicionado com sucesso!",
                               id |-> id])
                   ELSE Raise(op, "KeyError")
        /\ UNCHANGED <<schema, laisvitor_admin, laisvitor_convidados,
                       laisvitor_depoimentos, ADMIN_SESSIONS, inflight>>
        /\ Request(~Forbidden(header), resp'.status = 500)

\* UPDATE laisvitor_presentes SET nome_presente, valor_cota, imagem_url,
\* descricao WHERE id = %s
UpdatePresente(rows, id, nome, valor, url, desc) ==
    { IF p.id = id
      THEN [p EXCEPT !.nome_presente = nome, !.valor_cota = ToDecimal(valor),
                     !.imagem_url = url, !.descricao = desc]
      ELSE p : p \in rows }

\* admin_update_presente with the 400 test moved above the check_auth test
admin_update_presente_ValidatesFirst(header, id, data) ==
    LET nome == Get(data, "nome_presente", NULL)
        valor == Get(data, "valor_cota", NULL)
        url == Get(data, "imagem_url", NULL)
        desc == Get(data, "descricao", NULL)
    IN  /\ schema = Tables
        /\ IF NotStr(nome) \/ NotNum(valor)
           THEN /\ Reply("admin_update_presente", 400,
                         [mensagem |-> "Nome e valor sao obrigatorios."])
                /\ UNCHANGED laisvitor_presentes
           ELSE IF Forbidden(header)
           THEN /\ Unauthorized("admin_update_presente")
                /\ UNCHANGED laisvitor_presentes
           ELSE /\ laisvitor_presentes' =
                     UpdatePresente(laisvitor_presentes, id, Unwrap(nome),
                                    Unwrap(valor), url, desc)
                /\ Reply("admin_update_presente", 200,
                         [mensagem |-> "Presente atualizado com sucesso!"])
        /\ UNCHANGED <<schema, laisvitor_admin, laisvitor_convidados,
                       laisvitor_depoimentos, serial, ADMIN_SESSIONS, inflight>>
        /\ Request(~Forbidden(header) /\ ~(NotStr(nome) \/ NotNum(valor)),
               resp'.status = 500)

admin_update_presente(header, id, data) ==
    LET nome == Get(data, "nome_presente", NULL)
        valor == Get(data, "valor_cota", NULL)
        url == Get(data, "imagem_url", NULL)
        desc == Get(data, "descricao", NULL)
    IN  /\ schema = Tables
        /\ IF Forbidden(header)
           THEN /\ Unauthorized("admin_update_presente")
                /\ UNCHANGED laisvitor_presentes
           ELSE IF NotStr(nome) \/ NotNum(valor)
           THEN /\ Reply("admin_update_presente", 400,
                         [mensagem |-> "Nome e valor sao obrigatorios."])
                /\ UNCHANGED laisvitor_presentes
           ELSE /\ laisvitor_presentes' =
                     UpdatePresente(laisvitor_presentes, id, Unwrap(nome),
                                    Unwrap(valor), url, desc)
                /\ Reply("admin_update_presente", 200,
                         [mensagem |-> "Presente atualizado com sucesso!"])
        /\ UNCHANGED <<schema, laisvitor_admin, laisvitor_convidados,
                       laisvitor_depoimentos, serial, ADMIN_SESSIONS, inflight>>
        /\ Request(~Forbidden(header) /\ ~(NotStr(nome) \/ NotNum(valor)),
               resp'.status = 500)

\* UPDATE laisvitor_presentes SET esta_ativo = %s WHERE id = %s
UpdatePresenteStatus(rows, id, new_status) ==
    { IF p.id = id THEN [p EXCEPT !.esta_ativo = new_status] ELSE p : p \in rows }

admin_toggle_presente_status(header, id, data) ==
    LET new_status == Get(data, "status", NULL)
    IN  /\ schema = Tables
        /\ IF Forbidden(header)
           THEN /\ Unauthorized("admin_toggle_presente_status")
                /\ UNCHANGED laisvitor_presentes
           ELSE /\ laisvitor_presentes' =
                     UpdatePresenteStatus(laisvitor_presentes, id, new_status)
                /\ Reply("admin_toggle_presente_status", 200,
                         [mensagem |-> "Status do presente alterado."])
        /\ UNCHANGED <<schema, laisvitor_admin, laisvitor_convidados,
                       laisvitor_depoimentos, serial, ADMIN_SESSIONS, inflight>>
        /\ Request(~Forbidden(header), resp'.status = 500)


\* 7.4
ConvidadoJson(c) ==
    [id |-> c.id, nome_convidado |-> c.nome_convidado,
     codigo_convite |-> c.codigo_convite, status_rsvp |-> c.status_rsvp,
     qtd_adultos |-> c.qtd_adultos,
     restricoes_alimentares |-> c.restricoes_alimentares]

get_convidado_by_id(header, id) ==
    LET found == { c \in laisvitor_convidados : c.id = id }
    IN  /\ schema = Tables
        /\ IF Forbidden(header) THEN Unauthorized("get_convidado_by_id")
           ELSE IF found = {}
           THEN Reply("get_convidado_by_id", 404, [erro |-> "Convidado nao encontrado"])
           ELSE Reply("get_convidado_by_id", 200, ConvidadoJson(CHOOSE c \in found : TRUE))
        /\ UNCHANGED <<db, ADMIN_SESSIONS, inflight>>
        /\ Request(~Forbidden(header), resp'.status = 500)

\* the UPDATE of admin_update_convidado without its WHERE clause
UpdateConvidado_AllRows(rows, id, nome, status, qtd_adultos, restricoes) ==
    { [c EXCEPT !.nome_convidado = nome, !.status_rsvp = status,
                !.qtd_adultos = qtd_adultos,
                !.restricoes_alimentares = restricoes] : c \in rows }

\* UPDATE laisvitor_convidados SET nome_convidado, status_rsvp, qtd_adultos,
\* restricoes_alimentares WHERE id = %s
UpdateConvidado(rows, id, nome, status, qtd_adultos, restricoes) ==
    { IF c.id = id
      THEN [c EXCEPT !.nome_convidado = nome, !.status_rsvp = status,
                     !.qtd_adultos = qtd_adultos,
                     !.restricoes_alimentares = restricoes]
      ELSE c : c \in rows }

admin_update_convidado(header, id, data) ==
    LET nome == Get(data, "nome_convidado", NULL)
        status == Get(data, "status_rsvp", NULL)
        qtd_adultos == Get(data, "qtd_adultos", NULL)
        restricoes == Get(data, "restricoes_alimentares", Val(""))
    IN  /\ schema = Tables
        /\ IF Forbidden(header)
           THEN /\ Unauthorized("admin_update_convidado")
                /\ UNCHANGED laisvitor_convidados
           ELSE IF NotStr(nome) \/ NotStr(status)
           THEN /\ Reply("admin_update_convidado", 400,
                         [mensagem |-> "Nome e Status sao obrigatorios."])
                /\ UNCHANGED laisvitor_convidados
           ELSE /\ laisvitor_convidados' =
                     UpdateConvidado(laisvitor_convidados, id, Unwrap(nome),
                                     status, qtd_adultos, restricoes)
                /\ Reply("admin_update_convidado", 200,
                         [mensagem |-> "Convidado atualizado com sucesso!"])
        /\ UNCHANGED <<schema, laisvitor_admin, laisvitor_presentes,
                       laisvitor_depoimentos, serial, ADMIN_SESSIONS, inflight>>
        /\ Request(~Forbidden(header) /\ ~(NotStr(nome) \/ NotStr(status)),
               resp'.status = 500)

\* the collation of the model's guest names, for ORDER BY nome_convidado
NomeRank(nome) == CASE nome = "Ana" -> 1 [] nome = "Bia" -> 2

ByNome(c1, c2) == NomeRank(c1.nome_convidado) <= NomeRank(c2.nome_convidado)

\* str(uuid.uuid4())[:6].upper()
CodigoConvite(uuid) == upper(Prefix(uuid, CodeLen))

\* The handler up to the INSERT of a POST: a GET, a 403 and a 400 end here; a
\* POST with a name has generated its code and waits to run its INSERT.
admin_gerenciar_convidados(method, header, data, uuid, maxConvidados, maxInflight) ==
    LET admin_id == SessionAdmin(header)
        nome == Get(data, "nome_convidado", NULL)
        codigo == CodigoConvite(uuid)
        op == "admin_gerenciar_convidados"
    IN  /\ schema = Tables
        /\ IF Forbidden(header)
           THEN /\ Unauthorized(op)
                /\ UNCHANGED <<inflight, connections>>
           ELSE IF method = "GET"
           THEN /\ \E order \in Orderings({ c \in laisvitor_convidados :
                                              Val(c.admin_id) = admin_id }, ByNome) :
                     Reply(op, 200, [i \in DOMAIN order |-> ConvidadoJson(order[i])])
                /\ UNCHANGED inflight
                /\ Request(TRUE, FALSE)
           ELSE IF NotStr(nome)
           THEN /\ Reply(op, 400, [mensagem |-> "Nome e obrigatorio."])
                /\ UNCHANGED inflight
                /\ Request(TRUE, FALSE)
           ELSE /\ BagCardinality(inflight) < maxInflight
                /\ serial["laisvitor_convidados"] + BagCardinality(inflight)
                     < maxConvidados
                /\ inflight' = inflight (+)
                     SetToBag({ [admin_id |-> Unwrap(admin_id),
                                 nome |-> Unwrap(nome), codigo |-> codigo] })
                /\ connections' = get_db_connection(connections)
                /\ UNCHANGED resp
        /\ UNCHANGED <<db, ADMIN_SESSIONS>>

\* a codigo_convite column without its UNIQUE constraint
CodigoTaken_Never(rows, codigo) == FALSE

\* whether the UNIQUE constraint on codigo_convite rejects the INSERT
CodigoTaken(rows, codigo) == \E c \in rows : c.codigo_convite = codigo

\* INSERT INTO laisvitor_convidados (admin_id, nome_convidado, codigo_convite):
\* the other columns take their defaults
InsertConvidado(rows, id, admin_id, nome, codigo) ==
    rows \cup { [id |-> id, admin_id |-> admin_id, codigo_convite |-> codigo,
                 nome_convidado |-> nome, status_rsvp |-> Val("Pendente"),
                 qtd_adultos |-> NULL, restricoes_alimentares |-> NULL,
                 data_confirmacao |-> NULL] }

\* The rest of a POST: INSERT ... RETURNING, commit, and the response. The
\* INSERT and its commit are one step: PostgreSQL makes a second INSERT of the
\* same code wait for the first one's commit and then fail.
admin_gerenciar_convidados_insert(req) ==
    LET id == nextval(serial, "laisvitor_convidados")
        op == "admin_gerenciar_convidados"
    IN  /\ BagIn(req, inflight)
        /\ inflight' = inflight (-) SetToBag({req})
        /\ serial' = [serial EXCEPT !["laisvitor_convidados"] = id]
        /\ IF CodigoTaken(laisvitor_convidados, req.codigo)
           THEN /\ Raise(op, "UniqueViolation")
                /\ UNCHANGED laisvitor_convidados
           ELSE /\ laisvitor_convidados' =
                     InsertConvidado(laisvitor_convidados, id, req.admin_id,
                                     req.nome, req.codigo)
                /\ IF IntegerSubscript("RealDictCursor")
                   THEN Reply(op, 200, [mensagem |-> "Convidado criado", id |-> id,
                                        codigo |-> req.codigo])
                   ELSE Raise(op, "KeyError")
        /\ UNCHANGED <<schema, laisvitor_admin, laisvitor_presentes,
                       laisvitor_depoimentos, ADMIN_SESSIONS>>
        /\ connections' = Finally(connections, resp'.status = 500)

---------------------------------------------------------------------------
(* Requests. *)

\* Authorization headers for a set of tokens: none, empty, a bare scheme, a
\* token no login can issue, and each token with and without the scheme
Garbage == <<"x">>
Headers(tokens) ==
    { NULL, Val(<<>>), Val(Bearer), Val(Bearer \o Garbage) }
      \cup { Val(Bearer \o t) : t \in tokens }
      \cup { Val(t) : t \in tokens }

OneUuid == { <<"a", "0", "0", "0", "0", "0", "0">> }

\* invite codes no guest can have: the program only generates upper case
CodigosErrados == { Prefix(u, CodeLen) : u \in OneUuid }

\* invite codes a guest may type: the codes of the given uuids and a wrong one
Codigos(uuids) == { CodigoConvite(u) : u \in uuids } \cup CodigosErrados

LoginBodies ==
    { <<>>, [username |-> Val("admin")],
      [username |-> Val("admin"), chave_admin |-> Val("")],
      [username |-> Val("admin"), chave_admin |-> Val("123")],
      [username |-> Val("admin"), chave_admin |-> Val(Sha256Hex("123"))],
      [username |-> Val("lais"), chave_admin |-> Val("123")],
      [username |-> Val("lais"), chave_admin |-> Val("noivos")],
      [username |-> Val("vitor"), chave_admin |-> Val("noivos")] }

VerificarBodies(codigos) ==
    { <<>> } \cup { [codigo_convite |-> Val(c)] : c \in codigos }

ConfirmarBodies(codigos) ==
    { <<>>, [status_rsvp |-> Val("Confirmado")] }
      \cup { [codigo_convite |-> Val(c), status_rsvp |-> Val("Confirmado"),
              qtd_adultos |-> Val(2), restricoes_alimentares |-> Val("vegano")] :
               c \in codigos }
      \cup { [codigo_convite |-> Val(c), status_rsvp |-> Val("Talvez")] :
               c \in codigos }

DepoimentoBodies(codigos) ==
    { <<>>, [mensagem |-> Val("Felicidades!")] }
      \cup { [codigo_convite |-> Val(c), mensagem |-> Val("Felicidades!")] :
               c \in codigos }
      \cup { [codigo_convite |-> Val(c)] : c \in codigos }

DepoimentoStatusBodies ==
    { <<>>, [status |-> Val("Aprovado")], [status |-> Val("Rejeitado")] }

PresenteBodies ==
    { [nome_presente |-> Val("Air Fryer")],
      [nome_presente |-> Val("Air Fryer"), valor_cota |-> Val(0)],
      [nome_presente |-> Val("Air Fryer"), valor_cota |-> Val(200),
       imagem_url |-> Val("fryer.png")] }

PresenteStatusBodies == { <<>>, [status |-> Val(TRUE)], [status |-> Val(FALSE)] }

ConvidadoBodies == { <<>>, [nome_convidado |-> Val("Ana")] }

ConvidadoUpdateBodies ==
    { [nome_convidado |-> Val("Bia")],
      [nome_convidado |-> Val("Bia"), status_rsvp |-> Val("Recusado")] }

---------------------------------------------------------------------------
(* The next-state relation.  A scope says which requests the clients send  *)
(* and how many rows, sessions and in-flight requests a run may hold; every *)
(* handler runs in every scope.                                             *)

\* ids of a URL: the next id of the table's sequence, which names no row,
\* and, for a table in the scope, every id the sequence has handed out
UrlIds(sc, table) ==
    IF table \in sc.tables THEN 1..(serial[table] + 1) ELSE {serial[table] + 1}

Next(sc) ==
    \/ \E failAt \in 0..SetupStatements : setup_database(TRUE, failAt)
    \/ setup_database(FALSE, 0)
    \/ \E data \in sc.login, token \in sc.tokens \ DOMAIN ADMIN_SESSIONS :
         \* uuid4 does not repeat a value it has handed out as a token
         login_admin(data, token, sc.sessions)
    \/ \E data \in VerificarBodies(sc.codigos) : rsvp_verificar(data)
    \/ \E data \in sc.confirmar, now \in sc.times : rsvp_confirmar(data, now)
    \/ get_depoimentos_publico
    \/ \E data \in sc.depoimento, now \in sc.times :
         post_depoimento_publico(data, now, sc.depoimentos)
    \/ get_presentes_publico
    \/ \E header \in Headers(sc.tokens) : admin_stats(header)
    \/ \E header \in Headers(sc.tokens) : admin_get_depoimentos_pendentes(header)
    \/ \E header \in Headers(sc.tokens), id \in UrlIds(sc, "laisvitor_depoimentos"),
          data \in DepoimentoStatusBodies :
         admin_update_depoimento_status(header, id, data)
    \/ \E header \in Headers(sc.tokens), id \in UrlIds(sc, "laisvitor_presentes") :
         get_presente_by_id(header, id)
    \/ \E method \in {"GET", "POST"}, header \in Headers(sc.tokens),
          data \in PresenteBodies :
         admin_gerenciar_presentes(method, header, data, sc.presentes)
    \/ \E header \in Headers(sc.tokens), id \in UrlIds(sc, "laisvitor_presentes"),
          data \in PresenteBodies :
         admin_update_presente(header, id, data)
    \/ \E header \in Headers(sc.tokens), id \in UrlIds(sc, "laisvitor_presentes"),
          data \in PresenteStatusBodies :
         admin_toggle_presente_status(header, id, data)
    \/ \E header \in Headers(sc.tokens), id \in UrlIds(sc, "laisvitor_convidados") :
         get_convidado_by_id(header, id)
    \/ \E header \in Headers(sc.tokens), id \in UrlIds(sc, "laisvitor_convidados"),
          data \in ConvidadoUpdateBodies :
         admin_update_convidado(header, id, data)
    \/ \E method \in {"GET", "POST"}, header \in Headers(sc.tokens),
          data \in ConvidadoBodies, uuid \in sc.uuids :
         admin_gerenciar_convidados(method, header, data, uuid,
                                    sc.convidados, sc.inflight)
    \/ \E req \in BagToSet(inflight) : admin_gerenciar_convidados_insert(req)

\* the smallest scope: one token, one guest, no testimonial, no new gift
SmallScope ==
    [tokens |-> OneUuid, login |-> LoginBodies, sessions |-> 1,
     uuids |-> OneUuid, codigos |-> Codigos(OneUuid), times |-> {1},
     confirmar |-> { <<>> }, depoimento |-> { <<>> },
     tables |-> {}, convidados |-> 1, presentes |-> 0, depoimentos |-> 0,
     inflight |-> 1]

\* sessions and authorization
SessionScope ==
    [SmallScope EXCEPT !.tokens = UUID4, !.sessions = MaxSessions]

NextSession == Next(SessionScope)

Spec == Init /\ [][NextSession]_vars

\* guests and their RSVP
ConvidadoScope ==
    [SmallScope EXCEPT
       !.uuids = UUID4, !.codigos = Codigos(UUID4),
       !.confirmar = ConfirmarBodies(Codigos(UUID4)),
       !.tables = {"laisvitor_convidados"},
       !.convidados = MaxConvidados, !.inflight = MaxInflight]

NextConvidado == Next(ConvidadoScope)

SpecConvidado == Init /\ [][NextConvidado]_vars

\* testimonials and their moderation
DepoimentoScope ==
    [SmallScope EXCEPT
       !.times = Times,
       !.confirmar = ConfirmarBodies(CodigosErrados),
       !.depoimento = DepoimentoBodies(Codigos(OneUuid)),
       !.tables = {"laisvitor_depoimentos"},
       !.depoimentos = MaxDepoimentos]

NextDepoimento == Next(DepoimentoScope)

SpecDepoimento == Init /\ [][NextDepoimento]_vars

\* the gift registry
PresenteScope ==
    [SmallScope EXCEPT
       !.tables = {"laisvitor_presentes"}, !.presentes = MaxPresentes]

NextPresente == Next(PresenteScope)

SpecPresente == Init /\ [][NextPresente]_vars

\* requests for ids that name no row, with rows in every table
UnknownIdScope ==
    [SmallScope EXCEPT
       !.depoimento = DepoimentoBodies(Codigos(OneUuid)),
       !.presentes = MaxPresentes, !.depoimentos = 1]

NextUnknownId == Next(UnknownIdScope)

SpecUnknownId == Init /\ [][NextUnknownId]_vars

---------------------------------------------------------------------------
(* Properties. *)

BearerHeader(t) == Val(Bearer \o t)

\* every id a URL can carry for a table: those handed out, and the next
AnyId(table) == 1..(serial[table] + 1)

\* a request to a protected handler with the given Authorization header (the
\* response names the handler that wrote it; a guest creation that has not
\* reached its INSERT has written none)
ProtectedRequest(header) ==
    \/ resp'.op = "admin_stats" /\ admin_stats(header)
    \/ resp'.op = "admin_get_depoimentos_pendentes" /\
       admin_get_depoimentos_pendentes(header)
    \/ resp'.op = "admin_update_depoimento_status" /\
       \E id \in AnyId("laisvitor_depoimentos"),
          data \in DepoimentoStatusBodies :
         admin_update_depoimento_status(header, id, data)
    \/ resp'.op = "get_presente_by_id" /\
       \E id \in AnyId("laisvitor_presentes") : get_presente_by_id(header, id)
    \/ resp'.op = "admin_gerenciar_presentes" /\
       \E method \in {"GET", "POST"}, data \in PresenteBodies \cup { <<>> } :
         admin_gerenciar_presentes(method, header, data, MaxPresentes)
    \/ resp'.op = "admin_update_presente" /\
       \E id \in AnyId("laisvitor_presentes"),
          data \in PresenteBodies \cup { <<>> } :
         admin_update_presente(header, id, data)
    \/ resp'.op = "admin_toggle_presente_status" /\
       \E id \in AnyId("laisvitor_presentes"), data \in PresenteStatusBodies :
         admin_toggle_presente_status(header, id, data)
    \/ resp'.op = "get_convidado_by_id" /\
       \E id \in AnyId("laisvitor_convidados") : get_convidado_by_id(header, id)
    \/ resp'.op = "admin_update_convidado" /\
       \E id \in AnyId("laisvitor_convidados"),
          data \in ConvidadoUpdateBodies \cup { <<>> } :
         admin_update_convidado(header, id, data)
    \/ (resp'.op = "admin_gerenciar_convidados" \/ UNCHANGED resp) /\
       \E method \in {"GET", "POST"}, data \in ConvidadoBodies, uuid \in UUID4 :
         admin_gerenciar_convidados(method, header, data, uuid,
                                    MaxConvidados, MaxInflight)

\* C1: a token that login_admin has issued stays in ADMIN_SESSIONS with the
\* admin id it was issued for, through every later step (other logins
\* included), and a protected request that carries it as 'Bearer <token>'
\* passes check_auth, is resolved to that admin id and is never answered 403
\* (a guest creation that has not reached its INSERT has no answer yet).
C1_SessionKept ==
    /\ [](resp.op = "login_admin" /\ resp.status = 200 =>
            /\ resp.body.token \in DOMAIN ADMIN_SESSIONS
            /\ ADMIN_SESSIONS[resp.body.token] = resp.body.admin_id
            /\ \E a \in laisvitor_admin : a.id = resp.body.admin_id)
    /\ [](\A t \in DOMAIN ADMIN_SESSIONS :
            /\ check_auth(BearerHeader(t)) = Val(ADMIN_SESSIONS[t])
            /\ SessionAdmin(BearerHeader(t)) = Val(ADMIN_SESSIONS[t])
            /\ ~Forbidden(BearerHeader(t)))
    /\ [][\A t \in DOMAIN ADMIN_SESSIONS :
            /\ t \in DOMAIN ADMIN_SESSIONS'
            /\ ADMIN_SESSIONS'[t] = ADMIN_SESSIONS[t]
            /\ (resp'.status # 403 \/ UNCHANGED resp
                  \/ ~ProtectedRequest(BearerHeader(t)))]_vars

\* two admins hold a session each, and a protected request was served after
\* the logins
C1_Witness ==
    /\ \E t1, t2 \in DOMAIN ADMIN_SESSIONS : ADMIN_SESSIONS[t1] # ADMIN_SESSIONS[t2]
    /\ resp.op = "admin_stats" /\ resp.status = 200

\* headers that are absent, empty, or whose token no login has issued
UnissuedHeaders ==
    { NULL, Val(<<>>), Val(Bearer), Val(Bearer \o Garbage) }
      \cup { Val(Bearer \o t) : t \in UUID4 \ DOMAIN ADMIN_SESSIONS }
      \cup { Val(t) : t \in UUID4 \ DOMAIN ADMIN_SESSIONS }

\* C2: a request to any protected handler whose Authorization header is
\* absent or carries a token no login issued is answered 403, whatever its
\* body and id (bodies without the required fields included), and changes no
\* table, sequence, session or in-flight request.
C2_UnissuedTokenForbidden ==
    [][\/ /\ resp'.status = 403
          /\ UNCHANGED <<db, ADMIN_SESSIONS, inflight>>
       \/ \A header \in UnissuedHeaders : ~ProtectedRequest(header)]_vars

\* a 403 was answered while a session exists and the tables hold rows
C2_Witness ==
    /\ resp.status = 403 /\ resp.op = "admin_update_convidado"
    /\ ADMIN_SESSIONS # <<>>
    /\ laisvitor_convidados # {}

SetupOk == "Tabelas verificadas/criadas com sucesso."

\* C10: a run of setup_database on the empty database that does not fail
\* creates the four tables, one admin row and two gift rows owned by it; a
\* run on a database that has its tables changes nothing; a run that fails
\* or cannot connect changes nothing.
C10_SetupIdempotent ==
    [][\A connected \in BOOLEAN, failAt \in 0..SetupStatements :
         resp'.op = "setup_database" /\ setup_database(connected, failAt) =>
           /\ (schema = {} /\ resp'.body.log = SetupOk =>
                 /\ schema' = Tables
                 /\ Cardinality(laisvitor_admin') = 1
                 /\ Cardinality(laisvitor_presentes') = 2
                 /\ \A p \in laisvitor_presentes', a \in laisvitor_admin' :
                      p.admin_id = a.id
                 /\ UNCHANGED <<laisvitor_convidados, laisvitor_depoimentos>>)
           /\ (schema = Tables => UNCHANGED db)
           /\ (resp'.body.log # SetupOk => UNCHANGED db)]_vars

\* a run failed after guests were created on the seeded database
C10_Witness ==
    /\ resp.op = "setup_database" /\ resp.body.log = "ERRO NO SETUP DO DB"
    /\ laisvitor_convidados # {}
    /\ Cardinality(laisvitor_presentes) = 2


AprovadoIds ==
    { d.id : d \in { x \in laisvitor_depoimentos :
                       x.status_aprovacao = Val("Aprovado") } }

\* the testimonials the public list returns
PublicDepoimentoIds == { j.d.id : j \in DepoimentosJoin("Aprovado") }

\* C3: the public testimonial list returns exactly the testimonials whose
\* status_aprovacao is 'Aprovado': a testimonial that post_depoimento_publico
\* has just inserted is 'Pendente' and not listed, and after
\* admin_update_depoimento_status a testimonial is listed if and only if the
\* status it was given is 'Aprovado'.
C3_OnlyAprovadoListed ==
    /\ [](PublicDepoimentoIds = AprovadoIds)
    /\ [](resp.op = "get_depoimentos_publico" =>
            /\ resp.status = 200
            /\ Len(resp.body) = Cardinality(AprovadoIds)
            /\ \A i \in DOMAIN resp.body :
                 \E d \in laisvitor_depoimentos :
                   /\ d.id \in AprovadoIds
                   /\ resp.body[i].texto = d.mensagem
                   /\ resp.body[i].data = TO_CHAR(d.data_criacao))
    /\ [][/\ \A data \in DepoimentoBodies(Codigos(UUID4)), now \in Times :
              resp'.op = "post_depoimento_publico" /\
              post_depoimento_publico(data, now, MaxDepoimentos) =>
                \A d \in laisvitor_depoimentos' \ laisvitor_depoimentos :
                  /\ d.status_aprovacao = Val("Pendente")
                  /\ d.id \notin PublicDepoimentoIds'
          /\ \A t \in DOMAIN ADMIN_SESSIONS,
                id \in AnyId("laisvitor_depoimentos"),
                data \in DepoimentoStatusBodies :
              resp'.op = "admin_update_depoimento_status" /\
              admin_update_depoimento_status(BearerHeader(t), id, data) =>
                (id \in PublicDepoimentoIds' <=>
                   /\ \E d \in laisvitor_depoimentos : d.id = id
                   /\ Get(data, "status", NULL) = Val("Aprovado"))]_vars

\* the public list was served with one testimonial approved and one not
C3_Witness ==
    /\ resp.op = "get_depoimentos_publico"
    /\ Len(resp.body) = 1
    /\ Cardinality(laisvitor_depoimentos) = 2
    /\ \E d \in laisvitor_depoimentos : d.status_aprovacao = Val("Rejeitado")

\* C4: what the public gift list returns is exactly the gifts whose
\* esta_ativo is true, so never a gift whose esta_ativo is false; the admin
\* gift list of a logged-in admin holds every gift that admin owns, the
\* inactive ones included.
C4_InactiveHiddenFromPublic ==
    /\ [](resp.op = "get_presentes_publico" =>
            /\ resp.status = 200
            /\ { resp.body[i].id : i \in DOMAIN resp.body } =
                 { p.id : p \in { x \in laisvitor_presentes :
                                    x.esta_ativo = Val(TRUE) } }
            /\ \A p \in laisvitor_presentes :
                 p.esta_ativo = Val(FALSE) =>
                   \A i \in DOMAIN resp.body : resp.body[i].id # p.id)
    /\ [][\A t \in DOMAIN ADMIN_SESSIONS, data \in PresenteBodies :
            resp'.op = "admin_gerenciar_presentes" /\
            admin_gerenciar_presentes("GET", BearerHeader(t), data, MaxPresentes) =>
              /\ resp'.status = 200
              /\ \A p \in laisvitor_presentes :
                   p.admin_id = ADMIN_SESSIONS[t] =>
                     \E i \in DOMAIN resp'.body :
                       /\ resp'.body[i].id = p.id
                       /\ resp'.body[i].esta_ativo = p.esta_ativo]_vars

\* the public list was served while a seed gift is inactive and a gift
\* created by the admin is active
C4_Witness ==
    /\ resp.op = "get_presentes_publico"
    /\ \E p \in laisvitor_presentes : p.esta_ativo = Val(FALSE)
    /\ \E p \in laisvitor_presentes :
         p.esta_ativo = Val(TRUE) /\ p.nome_presente = "Air Fryer"
    /\ Len(resp.body) = 2

\* the request's invite code is missing or is the code of no guest
UnknownCodigo(data) ==
    \A c \in laisvitor_convidados :
      Val(c.codigo_convite) # Get(data, "codigo_convite", NULL)

\* C5: rsvp_verificar, rsvp_confirmar and post_depoimento_publico answer 404
\* (not 500) to a request whose invite code is missing or matches no guest,
\* and change no row and no sequence.
C5_UnknownCodigoNotFound ==
    [][/\ \A data \in VerificarBodies(Codigos(UUID4)) :
            resp'.op = "rsvp_verificar" /\ UnknownCodigo(data) /\
            rsvp_verificar(data) =>
              resp'.status = 404 /\ UNCHANGED db
       /\ \A data \in ConfirmarBodies(Codigos(UUID4)), now \in Times :
            resp'.op = "rsvp_confirmar" /\ UnknownCodigo(data) /\
            rsvp_confirmar(data, now) =>
              resp'.status = 404 /\ UNCHANGED db
       /\ \A data \in DepoimentoBodies(Codigos(UUID4)), now \in Times :
            resp'.op = "post_depoimento_publico" /\ UnknownCodigo(data) /\
            post_depoimento_publico(data, now, MaxDepoimentos) =>
              resp'.status = 404 /\ UNCHANGED db]_vars

\* a testimonial was refused with 404 while a guest and a testimonial exist
C5_Witness ==
    /\ resp.op = "post_depoimento_publico" /\ resp.status = 404
    /\ laisvitor_convidados # {}
    /\ laisvitor_depoimentos # {}

\* C6: a successful rsvp_confirmar for code c writes the submitted status
\* (any string), adult count, restrictions and the current time to the one
\* guest whose code is c and changes nothing else; rsvp_verificar returns the
\* stored status of the guest whose code it is given; and no step other than
\* a confirm or an admin update (a step whose response is not theirs) changes
\* a guest's status or code.
C6_ConfirmThenVerify ==
    [][/\ \A data \in ConfirmarBodies(Codigos(UUID4)), now \in Times :
            resp'.op = "rsvp_confirmar" /\ resp'.status = 200 /\
            rsvp_confirmar(data, now) =>
              /\ Cardinality({ c \in laisvitor_convidados :
                                 ~UnknownCodigo(data) /\
                                 Val(c.codigo_convite) = data.codigo_convite }) = 1
              /\ Cardinality(laisvitor_convidados') =
                   Cardinality(laisvitor_convidados)
              /\ \A c \in laisvitor_convidados :
                   IF Val(c.codigo_convite) = data.codigo_convite
                   THEN \E c2 \in laisvitor_convidados' :
                          /\ c2.id = c.id /\ c2.admin_id = c.admin_id
                          /\ c2.codigo_convite = c.codigo_convite
                          /\ c2.nome_convidado = c.nome_convidado
                          /\ c2.status_rsvp = data.status_rsvp
                          /\ c2.qtd_adultos = Get(data, "qtd_adultos", Val(0))
                          /\ c2.restricoes_alimentares =
                               Get(data, "restricoes_alimentares", Val(""))
                          /\ c2.data_confirmacao = Val(now)
                   ELSE c \in laisvitor_convidados'
              /\ UNCHANGED <<schema, laisvitor_admin, laisvitor_presentes,
                             laisvitor_depoimentos, serial, ADMIN_SESSIONS>>
       /\ \A data \in VerificarBodies(Codigos(UUID4)) :
            resp'.op = "rsvp_verificar" /\ rsvp_verificar(data) =>
              \A c \in laisvitor_convidados :
                Val(c.codigo_convite) = Get(data, "codigo_convite", NULL) =>
                  /\ resp'.status = 200
                  /\ resp'.body.id = c.id
                  /\ resp'.body.status_rsvp = c.status_rsvp
       /\ (resp'.op \notin {"rsvp_confirmar", "admin_update_convidado"} =>
             \A c \in laisvitor_convidados :
               \E c2 \in laisvitor_convidados' :
                 /\ c2.id = c.id
                 /\ c2.codigo_convite = c.codigo_convite
                 /\ c2.status_rsvp = c.status_rsvp)]_vars

\* verify returned the free-text status one guest confirmed with, while
\* another guest is still pending
C6_Witness ==
    /\ resp.op = "rsvp_verificar" /\ resp.status = 200
    /\ resp.body.status_rsvp = Val("Talvez")
    /\ \E c \in laisvitor_convidados :
         c.id # resp.body.id /\ c.status_rsvp = Val("Pendente")

\* C7 (as claimed): an authenticated create with its required fields commits
\* exactly one row owned by the session's admin and answers 200 with the
\* row's id, and for a guest with its 6-character upper-case code and
\* status 'Pendente'.
C7_CreateAnswersId ==
    [][/\ \A t \in DOMAIN ADMIN_SESSIONS, data \in PresenteBodies :
            /\ ~NotStr(Get(data, "nome_presente", NULL))
            /\ ~NotNum(Get(data, "valor_cota", NULL))
            /\ admin_gerenciar_presentes("POST", BearerHeader(t), data, MaxPresentes)
            => /\ \E p \in laisvitor_presentes' :
                    /\ laisvitor_presentes' = laisvitor_presentes \cup {p}
                    /\ p \notin laisvitor_presentes
                    /\ p.admin_id = ADMIN_SESSIONS[t]
               /\ resp'.status = 200
               /\ \E p \in laisvitor_presentes' \ laisvitor_presentes :
                    resp'.body.id = p.id
       /\ \A req \in BagToSet(inflight) :
            /\ ~CodigoTaken(laisvitor_convidados, req.codigo)
            /\ admin_gerenciar_convidados_insert(req)
            => /\ \E c \in laisvitor_convidados' :
                    /\ laisvitor_convidados' = laisvitor_convidados \cup {c}
                    /\ c \notin laisvitor_convidados
                    /\ c.admin_id = req.admin_id
                    /\ c.status_rsvp = Val("Pendente")
                    /\ Len(c.codigo_convite) = 6
                    /\ upper(c.codigo_convite) = c.codigo_convite
               /\ resp'.status = 200
               /\ \E c \in laisvitor_convidados' \ laisvitor_convidados :
                    resp'.body.id = c.id /\ resp'.body.codigo = c.codigo_convite]_vars

UnknownId(rows, id) == \A r \in rows : r.id # id

\* a request of a logged-in admin that names an id of no row: its kind, and
\* whether the step is that request
UnknownIdRequest(kind) ==
    \E t \in DOMAIN ADMIN_SESSIONS :
      \/ /\ kind = "get"
         /\ \/ \E id \in AnyId("laisvitor_presentes") :
                 /\ UnknownId(laisvitor_presentes, id)
                 /\ get_presente_by_id(BearerHeader(t), id)
            \/ \E id \in AnyId("laisvitor_convidados") :
                 /\ UnknownId(laisvitor_convidados, id)
                 /\ get_convidado_by_id(BearerHeader(t), id)
      \/ /\ kind = "update"
         /\ \/ \E id \in AnyId("laisvitor_presentes"), data \in PresenteBodies :
                 /\ UnknownId(laisvitor_presentes, id)
                 /\ ~NotStr(Get(data, "nome_presente", NULL))
                 /\ ~NotNum(Get(data, "valor_cota", NULL))
                 /\ admin_update_presente(BearerHeader(t), id, data)
            \/ \E id \in AnyId("laisvitor_presentes"),
                  data \in PresenteStatusBodies :
                 /\ UnknownId(laisvitor_presentes, id)
                 /\ admin_toggle_presente_status(BearerHeader(t), id, data)
            \/ \E id \in AnyId("laisvitor_convidados"),
                  data \in ConvidadoUpdateBodies :
                 /\ UnknownId(laisvitor_convidados, id)
                 /\ ~NotStr(Get(data, "nome_convidado", NULL))
                 /\ ~NotStr(Get(data, "status_rsvp", NULL))
                 /\ admin_update_convidado(BearerHeader(t), id, data)
            \/ \E id \in AnyId("laisvitor_depoimentos"),
                  data \in DepoimentoStatusBodies :
                 /\ UnknownId(laisvitor_depoimentos, id)
                 /\ admin_update_depoimento_status(BearerHeader(t), id, data)

\* C8 (as claimed): every authenticated get, update or status change that
\* names an id of no row is answered 404 and changes no row.
C8_UnknownIdNotFound ==
    [][\A kind \in {"get", "update"} :
         UnknownIdRequest(kind) => resp'.status = 404 /\ UNCHANGED db]_vars

\* C8 (amended): an authenticated get of a gift or guest id that names no
\* row is answered 404; an authenticated update or status change (with its
\* required fields) of a gift, guest or testimonial id that names no row is
\* answered 200; none of them changes a row.
C8_UnknownIdChangesNothing ==
    [][/\ UnknownIdRequest("get") => resp'.status = 404 /\ UNCHANGED db
       /\ UnknownIdRequest("update") => resp'.status = 200 /\ UNCHANGED db]_vars

\* an update of an unknown guest id was answered 200 and the guest that exists
\* kept its name
C8_Witness ==
    /\ resp.op = "admin_update_convidado" /\ resp.status = 200
    /\ laisvitor_convidados # {}
    /\ \A c \in laisvitor_convidados : c.nome_convidado = "Ana"
    /\ laisvitor_depoimentos # {}

\* C9: no two guest rows share an invite code, also with several creations
\* in flight; the INSERT of a creation whose code a guest already has raises,
\* adds and changes no guest row, and the request is not run again.
C9_CodigoUnique ==
    /\ [](\A c1, c2 \in laisvitor_convidados :
            c1.codigo_convite = c2.codigo_convite => c1 = c2)
    /\ [][\A req \in BagToSet(inflight) :
            /\ \E c \in laisvitor_convidados : c.codigo_convite = req.codigo
            /\ admin_gerenciar_convidados_insert(req)
            => /\ resp'.status = 500
               /\ laisvitor_convidados' = laisvitor_convidados
               /\ BagCardinality(inflight') = BagCardinality(inflight) - 1]_vars

\* a creation failed on the code of the one guest that exists
C9_Witness ==
    /\ resp.op = "admin_gerenciar_convidados" /\ resp.status = 500
    /\ resp.body.exception = "UniqueViolation"
    /\ Cardinality(laisvitor_convidados) = 1


\* C11: every open database connection belongs to a request in progress (a
\* guest creation between its code generation and its INSERT), so no
\* connection is open when none is: a request that has finished, with
\* success, a 4xx response or an exception, has closed the connection it
\* opened.
C11_ConnectionsReleased ==
    /\ connections = BagCardinality(inflight)
    /\ (inflight = EmptyBag => connections = 0)

\* a guest creation ended in an exception while another is still in
\* progress: the one connection left open is that of the other request
C11_Witness ==
    /\ resp.op = "admin_gerenciar_convidados" /\ resp.status = 500
    /\ resp.body.exception = "KeyError"
    /\ BagCardinality(inflight) = 1
    /\ connections = 1


\* the admin row that setup_database seeds: the stored key is the SHA-256 hex
\* digest of '123'
SeededAdmin ==
    { a \in laisvitor_admin :
        a.username = "admin" /\ a.chave_admin = hash_password("123") }

===========================================================================
